---- MODULE Spec2Model ----
(***************************************************************************)
(* Model of the mern-blog backend (api/index.js, api/models/User.js,       *)
(* api/models/Post.js) and of the session-aware parts of its React client  *)
(* (UserContext.js, Header, LoginPage.js).                                 *)
(*                                                                         *)
(* The server is an Express application: every route handler is an async   *)
(* function that runs until its next await; the steps of one handler are   *)
(* therefore interleaved with the steps of the handlers of other requests. *)
(* A request lives in a slot of req from the moment it is sent until its   *)
(* response is delivered to the browser that sent it.                      *)
(***************************************************************************)
EXTENDS Integers, Sequences, FiniteSets, TLC

\* ------------------------------------------------------------------ bounds
MaxPosts == 1         \* posts the store may hold

\* requests in flight at the same time
Slots == {1, 2}
\* The server keeps no state per client and sees of a client only the
\* requests it sends, so one browser, which can hold the cookie of any
\* identity in turn, sends every request the server can receive.
Clients == {"c1"}
UserNames == {"alice", "bob"}
\* the password an identity registers with, and the ones tried at login
RegisterPasswords == {"pw1"}
Passwords == {"pw1", "pw2"}
Salts == {"salt"}
\* Math.floor(Date.now() / 1000) when a token is signed
IssueTimes == {"t0"}

\* ------------------------------------------------------------------ values
Null == [kind |-> "null"]
NoFile == [kind |-> "nofile"]
Upload == [originalname |-> <<"photo", "png">>, path |-> <<"uploads/", "tmp1">>]
\* the forms submitted to POST /post and PUT /post/:id: req.body and req.file
Forms == {[title |-> "t1", summary |-> "s1", content |-> "c1", file |-> NoFile],
          [title |-> "t2", summary |-> "s2", content |-> "c2", file |-> Upload]}
\* the updates that replace every field a PUT can replace, the cover included
FullUpdates == {f \in Forms : f.file # NoFile}

\* req.cookies.token: undefined when the browser holds no token cookie, ""
\* after the cookie was overwritten by /logout
Absent == [kind |-> "absent"]
EmptyCookie == [kind |-> "empty"]
Garbage == [kind |-> "garbage"]
NoSet == [kind |-> "noset"]

\* process.env.JWT_SECRET, and a key that is not the server's
secret == "K"
OtherKey == "K2"

VARIABLES users, posts, cookie, userInfo, req

vars == <<users, posts, cookie, userInfo, req>>

\* ------------------------------------------------------------------ helpers
\* the n-th ObjectId the store hands out in a collection
ObjectId(n) == [oid |-> n]

\* ObjectId.toString() / toJSON(): the 24-digit hex string of the id
OidToString(id) == [hex |-> id.oid]

\* the author taken from the first identity whatever the token names
CastFirstObjectId(str) == [oid |-> 1]

\* Mongoose casting a hex string to the ObjectId it denotes
CastObjectId(str) == [oid |-> str.hex]

\* the ids a request names in /post/:id
PostIds == {OidToString(ObjectId(n)) : n \in 1..MaxPosts}

\* bcrypt.hash(password, salt): the salt is kept in the hash
BcryptHash(password, salt) == [salt |-> salt, digest |-> <<password, salt>>]

\* bcrypt.compare without its await: a promise, which is truthy
BcryptCompareNoAwait(password, hash) == TRUE

\* bcrypt.compare(password, hash): re-hash under the salt of the stored hash
BcryptCompare(password, hash) == BcryptHash(password, hash.salt) = hash

\* the HMAC of a payload under a key: only the holder of the key computes it
Signature(payload, key) == <<"hs256", payload, key>>

\* jwt.sign({ userId: userDoc._id, userName: userDoc.userName }, key, {}):
\* the payload is JSON-serialised (ObjectId -> string), iat is added, and the
\* token carries the payload and its signature under key
JwtSign(userDoc, key, iat) ==
  LET payload == [userId |-> OidToString(userDoc._id),
                  userName |-> userDoc.userName, iat |-> iat]
  IN [kind |-> "jwt", payload |-> payload, sig |-> Signature(payload, key)]

\* jwt.decode in the place of jwt.verify: the signature is not checked
JwtDecodeOnly(token, key) ==
  IF token.kind = "jwt"
  THEN [err |-> FALSE, info |-> token.payload]
  ELSE [err |-> TRUE, info |-> Null]

\* jwt.verify(token, key): err unless the token is well formed and its
\* signature is the one of its payload under key; info is the decoded payload
JwtVerify(token, key) ==
  IF token.kind = "jwt" /\ token.sig = Signature(token.payload, key)
  THEN [err |-> FALSE, info |-> token.payload]
  ELSE [err |-> TRUE, info |-> Null]

\* !token
TokenMissing(token) == token \in {Absent, EmptyCookie}

\* Tokens the server never issued: garbage, a well-formed token signed under
\* another key, and a token of the second identity whose payload was changed
\* to claim the first identity while its signature was kept.
OtherKeyToken == JwtSign([_id |-> ObjectId(1), userName |-> "alice"], OtherKey, "t0")
TamperedToken ==
  [JwtSign([_id |-> ObjectId(2), userName |-> "bob"], secret, "t0") EXCEPT
     !.payload = [userId |-> OidToString(ObjectId(1)), userName |-> "alice", iat |-> "t0"]]
ForgedTokens == {Garbage, OtherKeyToken, TamperedToken}

\* User.findOne with a filter on a path the schema lacks, which Mongoose
\* drops: the first identity is found whatever the name
FindFirstUser(userName) == IF users # <<>> THEN users[1] ELSE Null

\* User.findOne({ userName })
FindUser(userName) ==
  IF \E i \in DOMAIN users : users[i].userName = userName
  THEN users[CHOOSE i \in DOMAIN users : users[i].userName = userName]
  ELSE Null

\* userName without its unique index
NoUniqueIndex(userName) == FALSE

\* the unique index on userName rejects the insert
DuplicateKey(userName) == \E i \in DOMAIN users : users[i].userName = userName

\* Post.findById(id)
FindPost(id) ==
  IF CastObjectId(id).oid \in DOMAIN posts THEN posts[CastObjectId(id).oid] ELSE Null

\* post.author !== info.userId: an ObjectId is never a string
NotAuthorNoToString(post, info) == post.author # info.userId

\* post.author.toString() !== info.userId
NotAuthor(post, info) == OidToString(post.author) # info.userId

\* path + "." + ext, with ext the last part of originalname
RenamedPath(file) ==
  file.path \o <<".", file.originalname[Len(file.originalname)]>>

\* newPath.replace("uploads/", "")
RelativePath(path) == IF path[1] = "uploads/" THEN Tail(path) ELSE path

Response(status, error, body, setCookie) ==
  [status |-> status, error |-> error, body |-> body, setCookie |-> setCookie]

Idle == [pc |-> "idle"]

\* the routes that read req.cookies.token
Protected == {"profile", "createPost", "putPost"}

\* A request as its handler reads it: of the cookie only the routes in
\* Protected read anything.
Request(c, ep, token, userName, password, postId, form) ==
  [pc |-> "sent", client |-> c, ep |-> ep,
   tok |-> IF ep \in Protected THEN token ELSE Null,
   userName |-> userName, password |-> password, postId |-> postId,
   body |-> IF form = Null THEN Null
            ELSE [title |-> form.title, summary |-> form.summary,
                  content |-> form.content],
   file |-> IF form = Null THEN NoFile ELSE form.file,
   doc |-> Null, resp |-> Null]

\* the slot a new request takes
HasFreeSlot == \E s \in Slots : req[s] = Idle
FreeSlot == CHOOSE s \in Slots : req[s] = Idle /\ \A t \in Slots : req[t] = Idle => s <= t

Send(r) == /\ HasFreeSlot
           /\ req' = [req EXCEPT ![FreeSlot] = r]

Respond(s, resp) == req' = [req EXCEPT ![s].pc = "responded", ![s].resp = resp]

\* the handler ended (a rejected promise nobody handles) without a response
Hang(s) == req' = [req EXCEPT ![s].pc = "hung"]

At(s, ep, pc) == req[s] # Idle /\ req[s].ep = ep /\ req[s].pc = pc

\* ------------------------------------------------------------------ init
Init ==
  /\ users = <<>>
  /\ posts = <<>>
  /\ cookie = [c \in Clients |-> Absent]
  /\ userInfo = [c \in Clients |-> Null]
  /\ req = [s \in Slots |-> Idle]

\* ------------------------------------------------------------------ client
\* The browser (re)loads the application: UserContextProvider mounts with
\* userInfo null and fetches /profile with the browser's cookie.
PageLoad(c) ==
  /\ \A s \in Slots : req[s] # Idle => req[s].client # c
  /\ userInfo' = [userInfo EXCEPT ![c] = Null]
  /\ Send(Request(c, "profile", cookie[c], Null, Null, Null, Null))
  /\ UNCHANGED <<users, posts, cookie>>

\* LoginPage.login: the form is submitted
SubmitLogin(c, userName, password) ==
  /\ Send(Request(c, "login", cookie[c], userName, password, Null, Null))
  /\ UNCHANGED <<users, posts, cookie, userInfo>>

\* Header.logout: the Logout link is rendered only while userInfo?.userName
ShowsUser(c) == userInfo[c] # Null /\ userInfo[c].userName # ""

ClickLogout(c) ==
  /\ ShowsUser(c)
  /\ Send(Request(c, "logout", cookie[c], Null, Null, Null, Null))
  /\ UNCHANGED <<users, posts, cookie, userInfo>>

\* Requests sent by any HTTP client that keeps the cookies it is sent. To a
\* protected route it presents its cookie or, in its place, a token that no
\* server issued.
Presents(c) == {cookie[c]} \cup ForgedTokens

SendLogin(c, userName, password) ==
  /\ Send(Request(c, "login", cookie[c], userName, password, Null, Null))
  /\ UNCHANGED <<users, posts, cookie, userInfo>>

SendProfile(c, token) ==
  /\ Send(Request(c, "profile", token, Null, Null, Null, Null))
  /\ UNCHANGED <<users, posts, cookie, userInfo>>

SendLogout(c) ==
  /\ Send(Request(c, "logout", cookie[c], Null, Null, Null, Null))
  /\ UNCHANGED <<users, posts, cookie, userInfo>>

SendRegister(c, userName, password) ==
  /\ Send(Request(c, "register", cookie[c], userName, password, Null, Null))
  /\ UNCHANGED <<users, posts, cookie, userInfo>>

SendCreatePost(c, token, form) ==
  /\ Send(Request(c, "createPost", token, Null, Null, Null, form))
  /\ UNCHANGED <<users, posts, cookie, userInfo>>

SendGetPost(c, id) ==
  /\ Send(Request(c, "getPost", cookie[c], Null, Null, id, Null))
  /\ UNCHANGED <<users, posts, cookie, userInfo>>

SendPutPost(c, token, id, form) ==
  /\ Send(Request(c, "putPost", token, Null, Null, id, form))
  /\ UNCHANGED <<users, posts, cookie, userInfo>>

\* ------------------------------------------------------------------ server
\* The parameters named ok... say whether the collaborator called at that
\* point (document store, file system) does its work or throws.

\* POST /register, up to the await of bcrypt.hash
RegisterHash(s) ==
  /\ At(s, "register", "sent")
  /\ \E salt \in Salts :
       req' = [req EXCEPT ![s].pc = "hashed",
                          ![s].doc = [userName |-> req[s].userName,
                                      password |-> BcryptHash(req[s].password, salt)]]
  /\ UNCHANGED <<users, posts, cookie, userInfo>>

\* POST /register, from User.create to the response
RegisterCreate(s, okCreate) ==
  /\ At(s, "register", "hashed")
  /\ IF ~okCreate \/ DuplicateKey(req[s].doc.userName)
     THEN /\ Respond(s, Response(400, "Error registering user", Null, NoSet))
          /\ UNCHANGED users
     ELSE LET userDoc == [_id |-> ObjectId(Len(users) + 1),
                          userName |-> req[s].doc.userName,
                          password |-> req[s].doc.password]
          IN /\ users' = Append(users, userDoc)
             /\ \E iat \in IssueTimes :
                  Respond(s, Response(200, "",
                                      [id |-> OidToString(userDoc._id),
                                       userName |-> userDoc.userName],
                                      JwtSign(userDoc, secret, iat)))
  /\ UNCHANGED <<posts, cookie, userInfo>>

\* POST /login, up to the await of User.findOne
LoginFind(s, okFind) ==
  /\ At(s, "login", "sent")
  /\ IF ~okFind
     THEN Hang(s)
     ELSE IF FindUser(req[s].userName) = Null
     THEN Respond(s, Response(400, "User not found", Null, NoSet))
     ELSE req' = [req EXCEPT ![s].pc = "found",
                             ![s].doc = FindUser(req[s].userName)]
  /\ UNCHANGED <<users, posts, cookie, userInfo>>

\* POST /login, from bcrypt.compare to the response
LoginCompare(s) ==
  /\ At(s, "login", "found")
  /\ IF BcryptCompare(req[s].password, req[s].doc.password)
     THEN \E iat \in IssueTimes :
            Respond(s, Response(200, "",
                                [id |-> OidToString(req[s].doc._id),
                                 userName |-> req[s].userName],
                                JwtSign(req[s].doc, secret, iat)))
     ELSE Respond(s, Response(400, "Invalid password", Null, NoSet))
  /\ UNCHANGED <<users, posts, cookie, userInfo>>

\* GET /profile
Profile(s) ==
  /\ At(s, "profile", "sent")
  /\ IF TokenMissing(req[s].tok)
     THEN Respond(s, Response(403, "Token is missing", Null, NoSet))
     ELSE IF JwtVerify(req[s].tok, secret).err
     THEN Respond(s, Response(403, "Invalid token", Null, NoSet))
     ELSE Respond(s, Response(200, "", JwtVerify(req[s].tok, secret).info, NoSet))
  /\ UNCHANGED <<users, posts, cookie, userInfo>>

\* POST /logout
Logout(s) ==
  /\ At(s, "logout", "sent")
  /\ Respond(s, Response(200, "", "ok", EmptyCookie))
  /\ UNCHANGED <<users, posts, cookie, userInfo>>

\* the cover of a post made from an upload
CoverOf(file) == IF file = NoFile THEN Null ELSE RelativePath(RenamedPath(file))

\* POST /post
CreatePost(s, okRename, okCreate) ==
  /\ At(s, "createPost", "sent")
  /\ IF TokenMissing(req[s].tok)
     THEN /\ Respond(s, Response(500, "Internal server error", Null, NoSet))
          /\ UNCHANGED posts
     ELSE IF JwtVerify(req[s].tok, secret).err
     THEN /\ Respond(s, Response(403, "Invalid token", Null, NoSet))
          /\ UNCHANGED posts
     ELSE IF (req[s].file # NoFile /\ ~okRename) \/ ~okCreate
     THEN /\ Hang(s)
          /\ UNCHANGED posts
     ELSE LET info == JwtVerify(req[s].tok, secret).info
              postDoc == [_id |-> ObjectId(Len(posts) + 1),
                          title |-> req[s].body.title,
                          summary |-> req[s].body.summary,
                          content |-> req[s].body.content,
                          cover |-> CoverOf(req[s].file),
                          author |-> CastObjectId(info.userId)]
          IN /\ posts' = Append(posts, postDoc)
             /\ Respond(s, Response(200, "", postDoc, NoSet))
  /\ UNCHANGED <<users, cookie, userInfo>>

\* .populate("author", "userName")
Populate(post) ==
  IF post = Null THEN Null
  ELSE [post EXCEPT !.author =
          IF post.author.oid \in DOMAIN users
          THEN [_id |-> post.author, userName |-> users[post.author.oid].userName]
          ELSE Null]

\* GET /post/:id
GetPost(s, okFind) ==
  /\ At(s, "getPost", "sent")
  /\ IF ~okFind
     THEN Respond(s, Response(500, "Server error", Null, NoSet))
     ELSE Respond(s, Response(200, "", Populate(FindPost(req[s].postId)), NoSet))
  /\ UNCHANGED <<users, posts, cookie, userInfo>>

\* PUT /post/:id, up to the await of post.save(): the rename of the upload,
\* the token, the lookup, the ownership check and the new field values
PutFind(s, okRename, okFind) ==
  /\ At(s, "putPost", "sent")
  /\ IF req[s].file # NoFile /\ ~okRename
     THEN Hang(s)
     ELSE IF TokenMissing(req[s].tok)
     THEN Respond(s, Response(403, "Token is missing", Null, NoSet))
     ELSE IF JwtVerify(req[s].tok, secret).err
     THEN Respond(s, Response(403, "Invalid token", Null, NoSet))
     ELSE IF ~okFind
     THEN Respond(s, Response(500, "Internal server error", Null, NoSet))
     ELSE IF FindPost(req[s].postId) = Null
     THEN Respond(s, Response(404, "Post not found", Null, NoSet))
     ELSE IF NotAuthor(FindPost(req[s].postId), JwtVerify(req[s].tok, secret).info)
     THEN Respond(s, Response(403, "You are not the author of this post", Null, NoSet))
     ELSE LET post == FindPost(req[s].postId)
          IN req' = [req EXCEPT
               ![s].pc = "saving",
               ![s].doc = [post EXCEPT
                  !.title = req[s].body.title,
                  !.summary = req[s].body.summary,
                  !.content = req[s].body.content,
                  !.cover = IF req[s].file # NoFile
                            THEN CoverOf(req[s].file) ELSE post.cover]]
  /\ UNCHANGED <<users, posts, cookie, userInfo>>

\* post.save(): the fields the handler set are written to the stored post
SavePost(stored, doc, file) ==
  [stored EXCEPT !.title = doc.title, !.summary = doc.summary,
                 !.content = doc.content,
                 !.cover = IF file # NoFile THEN doc.cover ELSE stored.cover]

\* PUT /post/:id, from post.save() to the response
PutSave(s, okSave) ==
  /\ At(s, "putPost", "saving")
  /\ IF ~okSave
     THEN /\ Respond(s, Response(500, "Internal server error", Null, NoSet))
          /\ UNCHANGED posts
     ELSE LET id == req[s].doc._id.oid
              updatedPost == SavePost(posts[id], req[s].doc, req[s].file)
          IN /\ posts' = [posts EXCEPT ![id] = updatedPost]
             /\ Respond(s, Response(200, "", req[s].doc, NoSet))
  /\ UNCHANGED <<users, cookie, userInfo>>

\* ------------------------------------------------------------------ delivery
\* response.ok
ResponseOk(resp) == resp.status >= 200 /\ resp.status <= 299

\* what the page does with the response of a fetch
OnResponse(info, ep, resp) ==
  IF ep = "login" /\ ResponseOk(resp) THEN resp.body
  ELSE IF ep = "profile" /\ ResponseOk(resp) THEN resp.body
  ELSE IF ep = "logout" THEN Null
  ELSE info

\* the client stores the cookie a response sets
StoreCookie(old, resp) == IF resp.setCookie # NoSet THEN resp.setCookie ELSE old

\* An HTTP client receives the response.
Deliver(s) ==
  /\ req[s] # Idle
  /\ req[s].pc = "responded"
  /\ cookie' = [cookie EXCEPT ![req[s].client] = StoreCookie(@, req[s].resp)]
  /\ req' = [req EXCEPT ![s] = Idle]
  /\ UNCHANGED <<users, posts, userInfo>>

\* The React application receives the response: the browser stores the
\* cookie and the page's handler of the fetch runs.
PageDeliver(s) ==
  /\ req[s] # Idle
  /\ req[s].pc = "responded"
  /\ LET c == req[s].client
     IN /\ cookie' = [cookie EXCEPT ![c] = StoreCookie(@, req[s].resp)]
        /\ userInfo' = [userInfo EXCEPT ![c] = OnResponse(@, req[s].ep, req[s].resp)]
  /\ req' = [req EXCEPT ![s] = Idle]
  /\ UNCHANGED <<users, posts>>

\* the transport gives up on a request that will never be answered
Abandon(s) ==
  /\ req[s] # Idle
  /\ req[s].pc = "hung"
  /\ req' = [req EXCEPT ![s] = Idle]
  /\ UNCHANGED <<users, posts, cookie, userInfo>>

\* ------------------------------------------------------------------ next
\* posts stored or about to be: the cap on the size of the store
PostsInFlight == Cardinality({s \in Slots : req[s] # Idle /\ req[s].ep = "createPost"})

\* the requests an HTTP client sends, its updates drawn from updateForms
ClientStep(updateForms) ==
  \E c \in Clients :
    \/ \E u \in UserNames, p \in RegisterPasswords : SendRegister(c, u, p)
    \/ \E u \in UserNames, p \in Passwords : SendLogin(c, u, p)
    \/ \E t \in Presents(c) : SendProfile(c, t)
    \/ SendLogout(c)
    \/ \E t \in Presents(c), f \in Forms :
         Len(posts) + PostsInFlight < MaxPosts /\ SendCreatePost(c, t, f)
    \/ \E id \in PostIds : SendGetPost(c, id)
    \/ \E t \in Presents(c), id \in PostIds, f \in updateForms :
         SendPutPost(c, t, id, f)

\* The server with collaborators that do their work. Posts are created with
\* and without an upload; every update replaces all the fields of the post.
Next ==
  \/ ClientStep(FullUpdates)
  \/ \E s \in Slots :
       \/ RegisterHash(s)
       \/ RegisterCreate(s, TRUE)
       \/ LoginFind(s, TRUE)
       \/ LoginCompare(s)
       \/ Profile(s)
       \/ Logout(s)
       \/ CreatePost(s, TRUE, TRUE)
       \/ GetPost(s, TRUE)
       \/ PutFind(s, TRUE, TRUE)
       \/ PutSave(s, TRUE)
       \/ Deliver(s)

Spec == Init /\ [][Next]_vars

\* The server with a document store and a file system that may throw;
\* updates come with and without an upload.
FaultNext ==
  \/ ClientStep(Forms)
  \/ \E s \in Slots :
       \/ RegisterHash(s)
       \/ \E ok \in BOOLEAN : RegisterCreate(s, ok)
       \/ \E ok \in BOOLEAN : LoginFind(s, ok)
       \/ LoginCompare(s)
       \/ Profile(s)
       \/ Logout(s)
       \/ \E okRename, okCreate \in BOOLEAN : CreatePost(s, okRename, okCreate)
       \/ \E ok \in BOOLEAN : GetPost(s, ok)
       \/ \E okRename, okFind \in BOOLEAN : PutFind(s, okRename, okFind)
       \/ \E ok \in BOOLEAN : PutSave(s, ok)
       \/ Deliver(s)
       \/ Abandon(s)

FaultSpec == Init /\ [][FaultNext]_vars

\* The React application in one browser, with the session routes and the
\* creation of posts.
PageNext ==
  \/ \E c \in Clients :
       \/ PageLoad(c)
       \/ \E u \in UserNames, p \in Passwords : SubmitLogin(c, u, p)
       \/ ClickLogout(c)
       \/ \E u \in UserNames, p \in RegisterPasswords : SendRegister(c, u, p)
       \/ \E f \in Forms :
            Len(posts) + PostsInFlight < MaxPosts /\ SendCreatePost(c, cookie[c], f)
  \/ \E s \in Slots :
       \/ RegisterHash(s)
       \/ RegisterCreate(s, TRUE)
       \/ LoginFind(s, TRUE)
       \/ LoginCompare(s)
       \/ Profile(s)
       \/ Logout(s)
       \/ CreatePost(s, TRUE, TRUE)
       \/ PageDeliver(s)

PageSpec == Init /\ [][PageNext]_vars

\* ------------------------------------------------------------------ claims
\* a token the server issued: a client presents nothing else besides the
\* forged tokens and the missing ones
Issued(tok) == tok.kind = "jwt" /\ tok \notin ForgedTokens

\* the handler of the request in slot s takes the step that leaves pc from
Leaves(s, ep, from) ==
  /\ req[s] # Idle
  /\ req[s].ep = ep
  /\ req[s].pc = from
  /\ req'[s] # req[s]

Answered(s, ep) == req[s] # Idle /\ req[s].ep = ep /\ req[s].pc = "responded"

Forbidden == Response(403, "You are not the author of this post", Null, NoSet)

\* the number of the stored post a request names, and of the identity a
\* token names
PostNo(s) == req[s].postId.hex
TokenUserNo(tok) == tok.payload.userId.hex

C2_AuthorIsCreator ==
  [][
      /\ \A k \in DOMAIN posts :
          k \in DOMAIN posts' /\ posts'[k].author = posts[k].author
      /\ \A s \in Slots :
          (Leaves(s, "createPost", "sent") /\ req'[s].resp.status = 200) =>
            /\ Issued(req[s].tok)
            /\ TokenUserNo(req[s].tok) \in DOMAIN users
            /\ users[TokenUserNo(req[s].tok)].userName = req[s].tok.payload.userName
            /\ Len(posts') = Len(posts) + 1
            /\ posts'[Len(posts')].author = [oid |-> TokenUserNo(req[s].tok)]
      /\ (Len(posts') # Len(posts)) =>
            \E s \in Slots :
              Leaves(s, "createPost", "sent") /\ req'[s].resp.status = 200
    ]_vars

\* a post was updated by its author: it no longer has the content it was
\* created with, and its author is a stored identity
C2_Witness ==
  /\ \E s \in Slots : Answered(s, "putPost") /\ req[s].resp.status = 200
  /\ \E k \in DOMAIN posts : posts[k].author.oid \in DOMAIN users

\* C3: a request to a protected route that carries no token is answered 403
\* "Token is missing", whichever the route.
C3_MissingTokenEverywhere ==
  \A s \in Slots :
    (req[s] # Idle /\ req[s].ep \in Protected /\ req[s].pc = "responded"
       /\ req[s].tok \in {Absent, EmptyCookie}) =>
      req[s].resp = Response(403, "Token is missing", Null, NoSet)

\* C4: a request to a protected route whose token is not empty and was not
\* issued by the server is answered 403 "Invalid token" with no claim in the
\* body, and stores or changes nothing.
C4_ForgedTokenRejected ==
  [][\A s \in Slots :
       (req[s] # Idle /\ req[s].ep \in Protected /\ req[s].pc = "sent"
          /\ req[s].tok \in ForgedTokens /\ req'[s] # req[s]) =>
         /\ req'[s].pc = "responded"
         /\ req'[s].resp = Response(403, "Invalid token", Null, NoSet)
         /\ posts' = posts
         /\ users' = users
    ]_vars

\* all three kinds of forged token were presented and rejected, one of them on
\* PUT /post/:id for a stored post
C4_Witness ==
  /\ \E s \in Slots :
       /\ Answered(s, "putPost") /\ req[s].tok = TamperedToken
       /\ PostNo(s) \in DOMAIN posts
       /\ req[s].resp.error = "Invalid token"
  /\ \E s \in Slots :
       /\ req[s] # Idle /\ req[s].pc = "responded"
       /\ req[s].ep \in {"profile", "createPost"}
       /\ req[s].tok \in {Garbage, OtherKeyToken}
       /\ req[s].resp.error = "Invalid token"

\* the stored identity registered under a name, if there is one
Registered(userName) == \E i \in DOMAIN users : users[i].userName = userName
UserNo(userName) == CHOOSE i \in DOMAIN users : users[i].userName = userName

\* the password is the one the stored hash was made from
HashOf(password, hash) == hash.digest[1] = password

\* C5: POST /login of an unknown userName is answered "User not found"; of a
\* known userName it goes on to the comparison, which answers "Invalid
\* password" unless the password is the one of the stored hash and otherwise
\* answers 200 with a token of that identity. The failures set no cookie, and
\* the delivery of a response that sets none leaves the client's cookie alone.
C5_LoginIssuesTokenIffVerified ==
  [][
      /\ \A s \in Slots :
          Leaves(s, "login", "sent") =>
            IF Registered(req[s].userName)
            THEN req'[s].pc = "found" /\ req'[s].resp = Null
            ELSE /\ req'[s].pc = "responded"
                 /\ req'[s].resp = Response(400, "User not found", Null, NoSet)
      /\ \A s \in Slots :
          Leaves(s, "login", "found") =>
            /\ req'[s].pc = "responded"
            /\ Registered(req[s].userName)
            /\ IF HashOf(req[s].password, users[UserNo(req[s].userName)].password)
               THEN /\ req'[s].resp.status = 200
                    /\ Issued(req'[s].resp.setCookie)
                    /\ req'[s].resp.setCookie.payload.userName = req[s].userName
               ELSE req'[s].resp = Response(400, "Invalid password", Null, NoSet)
      /\ \A s \in Slots :
          (Answered(s, "login") /\ req[s].resp.setCookie = NoSet /\ req'[s] = Idle)
            => cookie' = cookie
    ]_vars

\* a login with the wrong password was refused while the client holds the
\* token of an earlier login, and a login with the right one was answered
C5_Witness ==
  /\ \E s \in Slots : Answered(s, "login") /\ req[s].resp.error = "Invalid password"
  /\ \E s \in Slots : Answered(s, "login") /\ req[s].resp.status = 200
  /\ \E c \in Clients : Issued(cookie[c])

UniqueUserNames ==
  \A i, j \in DOMAIN users : users[i].userName = users[j].userName => i = j

\* C6: no two stored identities have the same userName, and a registration
\* that reaches User.create with a userName already stored is answered 400
\* "Error registering user", stores no identity and sets no cookie.
C6_UserNameUnique ==
  [][
      /\ UniqueUserNames'
      /\ \A s \in Slots :
          (Leaves(s, "register", "hashed") /\ Registered(req[s].userName)) =>
            /\ users' = users
            /\ req'[s].pc = "responded"
            /\ req'[s].resp = Response(400, "Error registering user", Null, NoSet)
    ]_vars

\* two registrations of one userName were in flight together: one was
\* answered 200, the other 400
C6_Witness ==
  \E s, t \in Slots :
    /\ Answered(s, "register") /\ Answered(t, "register")
    /\ req[s].userName = req[t].userName
    /\ req[s].resp.status = 200
    /\ req[t].resp.error = "Error registering user"

\* the claim of the i-th stored identity
ClaimOf(i) == [userId |-> [hex |-> i], userName |-> users[i].userName]
HasClaim(payload, i) ==
  payload.userId = ClaimOf(i).userId /\ payload.userName = ClaimOf(i).userName

\* C7: the token a successful register or login of a userName sets carries
\* the userId and userName of the stored identity of that name; every issued
\* token a client holds or presents carries the claim of a stored identity;
\* and GET /profile with an issued token answers 200 with the userId and
\* userName of that token.
C7_ProfileReturnsIssuedClaim ==
  /\ \A s \in Slots :
       ((Answered(s, "login") \/ Answered(s, "register")) /\ req[s].resp.status = 200) =>
         /\ Registered(req[s].userName)
         /\ users[UserNo(req[s].userName)]._id = [oid |-> UserNo(req[s].userName)]
         /\ Issued(req[s].resp.setCookie)
         /\ HasClaim(req[s].resp.setCookie.payload, UserNo(req[s].userName))
         /\ req[s].resp.body = [id |-> [hex |-> UserNo(req[s].userName)],
                                userName |-> req[s].userName]
  /\ \A c \in Clients :
       Issued(cookie[c]) => \E i \in DOMAIN users : HasClaim(cookie[c].payload, i)
  /\ \A s \in Slots :
       (Answered(s, "profile") /\ Issued(req[s].tok)) =>
         /\ req[s].resp.status = 200
         /\ \E i \in DOMAIN users : HasClaim(req[s].tok.payload, i)
         /\ req[s].resp.body.userId = req[s].tok.payload.userId
         /\ req[s].resp.body.userName = req[s].tok.payload.userName

\* GET /profile returned the claim of the second identity while a login of
\* the first identity was answered
C7_Witness ==
  /\ \E s \in Slots :
       /\ Answered(s, "profile") /\ Issued(req[s].tok)
       /\ req[s].resp.body.userId = [hex |-> 2]
  /\ \E s \in Slots :
       /\ Answered(s, "login") /\ req[s].resp.status = 200
       /\ req[s].resp.body.id = [hex |-> 1]

\* C8: no handler ends without a response.
C8_EveryRequestAnswered ==
  \A s \in Slots : req[s] # Idle => req[s].pc # "hung"

\* C9: GET /post/:id, and PUT /post/:id with an issued token, naming a post
\* that is not stored are answered 404 and store no post.
C9_MissingPostNotFound ==
  [][\A s \in Slots :
       ((Leaves(s, "getPost", "sent")
           \/ (Leaves(s, "putPost", "sent") /\ Issued(req[s].tok)))
          /\ PostNo(s) \notin DOMAIN posts) =>
         /\ req'[s].pc = "responded"
         /\ req'[s].resp.status = 404
         /\ posts' = posts
    ]_vars

\* C10: while the browser holds the empty cookie that /logout set, the header
\* shows no user and the requests to protected routes that carried the empty
\* cookie were rejected.
C10_LoggedOutUntilNextLogin ==
  \A c \in Clients :
    cookie[c] = EmptyCookie =>
      /\ ~ShowsUser(c)
      /\ \A s \in Slots :
           (req[s] # Idle /\ req[s].client = c /\ req[s].ep \in Protected
              /\ req[s].pc = "responded" /\ req[s].tok = EmptyCookie) =>
             req[s].resp.status >= 400
====
